---- MODULE Spec2Model ----
(***************************************************************************)
(* A model of src/app.py, the Streamlit script "MySugr Improved": the      *)
(* script of lines 1-170 and the diet-plan script of lines 401-591.        *)
(*                                                                         *)
(* Streamlit runs the script from top to bottom after every interaction.   *)
(* What survives a run is the session state (logged_in, username), the     *)
(* users file and the values of the widgets that the run rendered; the     *)
(* rest (the data frame, the charts, the doses) is recomputed by each run. *)
(* Each action below is one interaction followed by the rerun it causes.   *)
(***************************************************************************)
EXTENDS Integers, Sequences, FiniteSets, TLC

VARIABLES
    users,          \* lines of users.csv, in file order: [username, password]
    accepted,       \* history: the sign-ups that save_user accepted, in order
    session_users,  \* st.session_state.users of the script of lines 401-591
    weekly_meals,   \* st.session_state[get_user_key("weekly_meals")], by user
    logged_in,      \* st.session_state.logged_in
    username,       \* st.session_state.username
    uploaded_file,  \* value of the st.file_uploader widget of the Dashboard tab
    inputs,         \* values of the five st.number_input widgets of the Insulin tab
    dose,           \* what the last run of the Insulin tab computed
    disk_file       \* the CSV file the user has at hand to upload (environment)

vars ==
    <<users, accepted, session_users, weekly_meals, logged_in, username,
      uploaded_file, inputs, dose, disk_file>>

(***************************************************************************)
(* Bounds of the model.                                                    *)
(***************************************************************************)
MaxRows == 2          \* rows of an uploaded file
MaxUsers == 3         \* lines of users.csv
MaxCols == 3          \* columns of the files that explore header lists
Samples == 2          \* sample points taken in each widget's range
FormulaSpan == 2      \* half-width of the input grid of the dose formulas

(***************************************************************************)
(* Rational numbers.  Python's / on two ints is true division; a dose is   *)
(* kept as an exact fraction num/den with den > 0.  err marks a raised     *)
(* ZeroDivisionError.                                                      *)
(***************************************************************************)
Frac(n, d) ==
    IF d < 0 THEN [err |-> FALSE, num |-> -n, den |-> -d]
             ELSE [err |-> FALSE, num |-> n, den |-> d]

Raised == [err |-> TRUE, num |-> 0, den |-> 1]

Zero == Frac(0, 1)

\* a / b for ints: ZeroDivisionError when b = 0
PyDiv(a, b) == IF b = 0 THEN Raised ELSE Frac(a, b)

FracLt(x, y) == x.num * y.den < y.num * x.den

FracEq(x, y) == x.err = y.err /\ x.num * y.den = y.num * x.den

\* x + y
FracAdd(x, y) ==
    IF x.err \/ y.err THEN Raised
    ELSE Frac(x.num * y.den + y.num * x.den, x.den * y.den)

\* max(x, 0): the first argument is kept unless the second is greater
PyMax0(x) == IF x.err THEN Raised ELSE IF FracLt(x, Zero) THEN Zero ELSE x

\* floor of n/d for d > 0
FloorDiv(n, d) == IF n >= 0 THEN n \div d ELSE -((-n + d - 1) \div d)

(***************************************************************************)
(* round(x, 1), in tenths.  The result is the multiple of 0.1 nearest to   *)
(* the float x.  When the exact value lies half-way between two tenths the *)
(* float may sit on either side of it (round(0.35, 1) is 0.3, round(0.45,  *)
(* 1) is 0.5, round(0.25, 1) is 0.2), so both neighbours are possible.     *)
(***************************************************************************)
RoundTenths(x) ==
    LET q == FloorDiv(10 * x.num, x.den)
        r == 10 * x.num - q * x.den
    IN  IF 2 * r < x.den THEN {q}
        ELSE IF 2 * r > x.den THEN {q + 1}
        ELSE {q, q + 1}

(***************************************************************************)
(* Insulin tab: the number_input widgets and the dose formulas.            *)
(***************************************************************************)
CarbsMin == 0
CarbsMax == 200
CarbsDefault == 50
CarbRatioMin == 1
CarbRatioMax == 30
CarbRatioDefault == 10
GlucoseMin == 50
GlucoseMax == 400
GlucoseDefault == 150
CorrectionFactorMin == 10
CorrectionFactorMax == 100
CorrectionFactorDefault == 50
TargetMin == 80
TargetMax == 150
TargetDefault == 110

Widgets == {"carbs", "carb_ratio", "glucose", "correction_factor", "target_glucose"}

DefaultInputs ==
    [carbs |-> CarbsDefault, carb_ratio |-> CarbRatioDefault,
     glucose |-> GlucoseDefault, correction_factor |-> CorrectionFactorDefault,
     target_glucose |-> TargetDefault]

\* what a number_input accepts: the integers from min_value to max_value
WidgetRange(w) ==
    CASE w = "carbs" -> CarbsMin..CarbsMax
      [] w = "carb_ratio" -> CarbRatioMin..CarbRatioMax
      [] w = "glucose" -> GlucoseMin..GlucoseMax
      [] w = "correction_factor" -> CorrectionFactorMin..CorrectionFactorMax
      [] w = "target_glucose" -> TargetMin..TargetMax

\* carb_insulin without the test of carb_ratio
carb_insulin_unguarded(carbs, carb_ratio) == PyDiv(carbs, carb_ratio)

\* carb_insulin = carbs / carb_ratio if carb_ratio else 0
carb_insulin(carbs, carb_ratio) ==
    IF carb_ratio # 0 THEN PyDiv(carbs, carb_ratio) ELSE Zero

\* correction_insulin without max(..., 0)
correction_insulin_no_floor(glucose, target_glucose, correction_factor) ==
    IF correction_factor # 0
    THEN PyDiv(glucose - target_glucose, correction_factor)
    ELSE Zero

\* correction_insulin without the test of correction_factor
correction_insulin_unguarded(glucose, target_glucose, correction_factor) ==
    PyMax0(PyDiv(glucose - target_glucose, correction_factor))

\* correction_insulin = max((glucose - target_glucose) / correction_factor, 0)
\*                      if correction_factor else 0
correction_insulin(glucose, target_glucose, correction_factor) ==
    IF correction_factor # 0
    THEN PyMax0(PyDiv(glucose - target_glucose, correction_factor))
    ELSE Zero

\* total_dose cut to one decimal instead of rounded
total_dose_truncated(carb, corr) ==
    LET x == FracAdd(carb, corr) IN {FloorDiv(10 * x.num, x.den)}

\* total_dose = round(carb_insulin + correction_insulin, 1): the possible
\* results, in tenths of a unit
total_dose(carb, corr) == RoundTenths(FracAdd(carb, corr))

NotRendered == [rendered |-> FALSE]

\* the values one run of the Insulin tab can compute from the widget values
InsulinTab(in) ==
    LET carb == carb_insulin(in.carbs, in.carb_ratio)
        corr == correction_insulin(in.glucose, in.target_glucose,
                                   in.correction_factor)
    IN  IF carb.err \/ corr.err
        THEN {[rendered |-> TRUE, raised |-> TRUE, carb_insulin |-> carb,
               correction_insulin |-> corr, total_dose |-> 0]}
        ELSE {[rendered |-> TRUE, raised |-> FALSE, carb_insulin |-> carb,
               correction_insulin |-> corr, total_dose |-> t] :
                 t \in total_dose(carb, corr)}

(***************************************************************************)
(* Dashboard tab: the uploaded CSV file.                                   *)
(*                                                                         *)
(* A header is its text in lower case without surrounding blanks (name),   *)
(* whether it is written with capital letters (up) and whether blanks      *)
(* surround it (pad).  A cell is a well-formed value of its column         *)
(* (kind "ok", v its rank among the well-formed values), a text that is    *)
(* not one (kind "bad") or an empty cell (kind "blank", NaN in the frame). *)
(***************************************************************************)
Header(n, u, p) == [name |-> n, up |-> u, pad |-> p]

\* a string literal of the script: lower case, no blanks around it
Lit(s) == Header(s, FALSE, FALSE)

Ok(v) == [kind |-> "ok", v |-> v]
Bad == [kind |-> "bad", v |-> 0]
Blank == [kind |-> "blank", v |-> 0]

NoFile == [none |-> TRUE]

\* the header names that contain the text "insulin"
InsulinNames == {"insulin", "basal insulin", "bolus insulin (units)"}

\* str.strip()
strip(h) == [h EXCEPT !.pad = FALSE]

\* str.lower()
lower(h) == [h EXCEPT !.up = FALSE]

\* col == "insulin" instead of "insulin" in col
equals_insulin(col) == col.name = "insulin" /\ ~col.up

\* "insulin" in col: a case-sensitive substring test
contains_insulin(col) == col.name \in InsulinNames /\ ~col.up

\* the columns stripped but not lower-cased
normalize_columns_no_lower(headers) == [i \in DOMAIN headers |-> strip(headers[i])]

\* the columns lower-cased but not stripped
normalize_columns_no_strip(headers) == [i \in DOMAIN headers |-> lower(headers[i])]

\* df.columns = df.columns.str.strip().str.lower()
normalize_columns(headers) == [i \in DOMAIN headers |-> lower(strip(headers[i]))]

\* s in df.columns
in_columns(s, cols) == \E i \in DOMAIN cols : cols[i] = Lit(s)

\* the position of column s
col_index(s, cols) == CHOOSE i \in DOMAIN cols : cols[i] = Lit(s)

\* df[s]: the cells of column s, one per row
column(f, cols, s) == [r \in DOMAIN f.rows |-> f.rows[r][col_index(s, cols)]]

NaT == [nat |-> TRUE, t |-> 0]
Ts(t) == [nat |-> FALSE, t |-> t]

\* the cells a file can hold in a column, by the column's name
DateCells == {Ok(1), Ok(2), Bad}
TimeCells == {Ok(1), Blank}
DatetimeCells == {Ok(1), Ok(2), Bad}
GlucoseCells == {Ok(1), Ok(2), Bad}

\* the number of well-formed time-of-day values
TimeRanks == Cardinality({c \in TimeCells : c.kind = "ok"})

\* df["date"] + " " + df["time"], cell by cell: NaN when either cell is NaN,
\* else the text "<date> <time>", at rank (date, time) in lexicographic order
concat_date_time(d, t) ==
    IF d.kind = "blank" \/ t.kind = "blank" THEN Blank
    ELSE IF d.kind = "ok" /\ t.kind = "ok" THEN Ok((d.v - 1) * TimeRanks + t.v)
    ELSE Bad

\* pd.to_datetime(..., errors="coerce"), cell by cell: NaT for what does not parse
to_datetime(cell) == IF cell.kind = "ok" THEN Ts(cell.v) ELSE NaT

\* the branches of lines 112-118 with "datetime" tested first
timestamp_source_single_first(cols) ==
    IF in_columns("datetime", cols) THEN "datetime"
    ELSE IF in_columns("date", cols) /\ in_columns("time", cols) THEN "date+time"
    ELSE "none"

\* which branch of lines 112-118 the run takes
timestamp_source(cols) ==
    IF in_columns("date", cols) /\ in_columns("time", cols) THEN "date+time"
    ELSE IF in_columns("datetime", cols) THEN "datetime"
    ELSE "none"

\* the column df["datetime"] after lines 112-115
datetime_column(f, cols) ==
    IF timestamp_source(cols) = "date+time"
    THEN [r \in DOMAIN f.rows |->
            to_datetime(concat_date_time(column(f, cols, "date")[r],
                                         column(f, cols, "time")[r]))]
    ELSE [r \in DOMAIN f.rows |-> to_datetime(column(f, cols, "datetime")[r])]

\* df.columns after the assignment to df["datetime"]: a new column goes last
columns_after(cols) ==
    IF in_columns("datetime", cols) THEN cols ELSE Append(cols, Lit("datetime"))

\* the cells of column number c after the assignment, as px.line receives them
y_values(f, cols, c) ==
    [r \in DOMAIN f.rows |-> f.rows[r][c]]

\* points in ascending order of x, NaT last, ties in their original order
RECURSIVE SortPoints(_)
SortPoints(ps) ==
    IF Len(ps) <= 1 THEN ps
    ELSE LET Before(a, b) == ~a.x.nat /\ (b.x.nat \/ a.x.t < b.x.t)
             rest == SortPoints(Tail(ps))
             lo == SelectSeq(rest, LAMBDA q : Before(q, Head(ps)))
             hi == SelectSeq(rest, LAMBDA q : ~Before(q, Head(ps)))
         IN  lo \o <<Head(ps)>> \o hi

\* px.line on the frame sorted by "datetime"
line_chart_sorted(f, cols, c) ==
    [y |-> columns_after(cols)[c],
     points |-> SortPoints([r \in DOMAIN f.rows |->
                   [x |-> datetime_column(f, cols)[r], y |-> y_values(f, cols, c)[r]]])]

\* px.line on the frame without the rows whose timestamp or value did not parse
line_chart_dropna(f, cols, c) ==
    [y |-> columns_after(cols)[c],
     points |-> SelectSeq([r \in DOMAIN f.rows |->
                   [x |-> datetime_column(f, cols)[r], y |-> y_values(f, cols, c)[r]]],
                   LAMBDA q : ~q.x.nat /\ q.y.kind = "ok")]

\* px.line(df, x="datetime", y=col): the rows of the frame, in the frame's order
line_chart(f, cols, c) ==
    [y |-> columns_after(cols)[c],
     points |-> [r \in DOMAIN f.rows |->
                   [x |-> datetime_column(f, cols)[r], y |-> y_values(f, cols, c)[r]]]]

\* insulin_cols = [col for col in df.columns if "insulin" in col]
insulin_cols(cols) == SelectSeq(columns_after(cols), contains_insulin)

GlucoseColumn == "blood sugar measurement (mg/dl)"

\* one run of the Dashboard tab on an uploaded file (lines 107-134).
\* status "exception": read_csv raised (a file without columns) and the except
\* clause reported it; "stopped": st.stop() ended the run; "ok": the run went on.
Dashboard(f) ==
    IF Len(f.headers) = 0
    THEN [status |-> "exception", message |-> "Error processing file",
          glucose_chart |-> <<>>, insulin_cols |-> <<>>, insulin_charts |-> <<>>]
    ELSE LET cols == normalize_columns(f.headers) IN
         IF timestamp_source(cols) = "none"
         THEN [status |-> "stopped", message |-> "No 'datetime' column found.",
               glucose_chart |-> <<>>, insulin_cols |-> <<>>, insulin_charts |-> <<>>]
         ELSE [status |-> "ok", message |-> "File uploaded successfully!",
               glucose_chart |->
                   IF in_columns(GlucoseColumn, cols)
                   THEN <<line_chart(f, cols, col_index(GlucoseColumn, cols))>>
                   ELSE <<>>,
               insulin_cols |-> insulin_cols(cols),
               insulin_charts |->
                   LET ic == insulin_cols(cols) IN
                   [k \in DOMAIN ic |-> line_chart(f, cols, col_index(ic[k].name, cols))]]

\* st.stop() in the Dashboard tab ends the run before the Insulin tab
run_stops(file) == file # NoFile /\ Dashboard(file).status = "stopped"

(***************************************************************************)
(* The files a user can have at hand.                                      *)
(***************************************************************************)
\* header names, in the order in which a file lists them
HeaderNames ==
    <<"date", "time", "datetime", "timestamp", "date time", "time stamp",
      "blood sugar measurement (mg/dl)", "blood glucose (mg/dl)", "blood glucose",
      "glucose (mg/dl)", "glucose value", "glucose", "bg", "measurement",
      "insulin", "basal insulin", "bolus insulin (units)", "notes">>

CellsOf(name) ==
    CASE name = "date" -> DateCells
      [] name = "time" -> TimeCells
      [] name = "datetime" -> DatetimeCells
      [] name = GlucoseColumn -> GlucoseCells
      [] OTHER -> {Ok(1)}

\* the k-th smallest element of a set of numbers
KthSmallest(S, k) == CHOOSE x \in S : Cardinality({y \in S : y < x}) = k - 1

\* the header lists of at most MaxCols of the names, all written the same way
HeaderLists ==
    {[k \in 1..Cardinality(S) |-> Header(HeaderNames[KthSmallest(S, k)], u, p)] :
        S \in {T \in SUBSET DOMAIN HeaderNames : Cardinality(T) <= MaxCols},
        u \in BOOLEAN, p \in BOOLEAN}

\* the rows a file with these headers can hold
RECURSIVE RowsOf(_)
RowsOf(headers) ==
    IF headers = <<>> THEN {<<>>}
    ELSE {<<c>> \o r : c \in CellsOf(Head(headers).name), r \in RowsOf(Tail(headers))}

\* sequences of at most n elements of S
SeqUpTo(S, n) == UNION {[1..k -> S] : k \in 0..n}

\* files that vary the header list, with one row of well-formed cells
HeaderFiles ==
    {[headers |-> h, rows |-> <<[i \in DOMAIN h |-> Ok(1)]>>] : h \in HeaderLists}

\* header lists of the files that vary the rows
DatetimeGlucose == <<Lit("datetime"), Lit(GlucoseColumn)>>

TitleCaseSplit ==
    <<Header("date", TRUE, FALSE), Header("time", TRUE, TRUE),
      Header(GlucoseColumn, TRUE, FALSE)>>

AllThreeInsulin == <<Lit("datetime"), Lit("date"), Lit("time"), Lit("insulin")>>

\* the files with these headers and up to MaxRows rows
FilesOf(h) == {[headers |-> h, rows |-> rs] : rs \in SeqUpTo(RowsOf(h), MaxRows)}

\* files that vary the rows
RowFiles ==
    FilesOf(DatetimeGlucose) \cup FilesOf(TitleCaseSplit) \cup FilesOf(AllThreeInsulin)

Files == HeaderFiles \cup RowFiles

\* a few files, one for each way a run of the Dashboard tab can go
FewFiles ==
    {[headers |-> <<>>, rows |-> <<>>],
     [headers |-> <<Lit("notes")>>, rows |-> <<<<Ok(1)>>>>],
     [headers |-> <<Lit("datetime"), Lit(GlucoseColumn)>>,
      rows |-> <<<<Ok(1), Ok(2)>>>>]}

(***************************************************************************)
(* Texts.  What a user types and what a line of users.csv holds is text;   *)
(* pd.read_csv and DataFrame.to_csv convert between text and typed cells,  *)
(* so a text is kept by what matters to them: a word that is no number, a  *)
(* run of digits (the number n after z leading zeros, "007" is n = 7,      *)
(* z = 2), the decimal "n.0", or nothing at all.                           *)
(***************************************************************************)
Word(s) == [kind |-> "word", s |-> s, n |-> 0, z |-> 0]
Digits(n, z) == [kind |-> "digits", s |-> "", n |-> n, z |-> z]
Decimal(n) == [kind |-> "decimal", s |-> "", n |-> n, z |-> 0]
EmptyText == [kind |-> "empty", s |-> "", n |-> 0, z |-> 0]

\* Python's None, the username of a session that is not logged in
NoUser == [kind |-> "none", s |-> "", n |-> 0, z |-> 0]

\* st.session_state without the key "users", and without any weekly_meals key
NoUsers == <<>>
NoPlans == <<>>

\* the cells of a data frame: a str, an int64, a float64 (whole-valued here),
\* and the missing value
Str(t) == [dtype |-> "str", t |-> t, v |-> 0]
Int64(n) == [dtype |-> "int64", t |-> EmptyText, v |-> n]
Float64(n) == [dtype |-> "float64", t |-> EmptyText, v |-> n]
NaN == [dtype |-> "nan", t |-> EmptyText, v |-> 0]

(***************************************************************************)
(* Users file (lines 20-38).                                               *)
(***************************************************************************)
\* pd.read_csv on one column of the file: the empty field is the missing
\* value; a column whose fields are all numbers is read as numbers, int64 if
\* all are runs of digits and none is missing and float64 otherwise; any
\* other column keeps its fields as the str they are
read_csv_column(col) ==
    LET present == {i \in DOMAIN col : col[i].kind # "empty"}
        numeric == \A i \in present : col[i].kind \in {"digits", "decimal"}
        integer == /\ present = DOMAIN col
                   /\ \A i \in present : col[i].kind = "digits"
    IN  [i \in DOMAIN col |->
            IF i \notin present THEN NaN
            ELSE IF ~numeric THEN Str(col[i])
            ELSE IF integer THEN Int64(col[i].n)
            ELSE Float64(col[i].n)]

\* DataFrame.to_csv on one cell
to_csv_cell(c) ==
    CASE c.dtype = "str" -> c.t
      [] c.dtype = "int64" -> Digits(c.v, 0)
      [] c.dtype = "float64" -> Decimal(c.v)
      [] OTHER -> EmptyText

\* DataFrame.to_csv(USER_FILE, index=False): the lines of the file
to_csv(frame) ==
    [i \in DOMAIN frame |->
        [username |-> to_csv_cell(frame[i].username),
         password |-> to_csv_cell(frame[i].password)]]

\* load_users(): the frame read from users.csv, without rows when the file
\* does not exist
load_users ==
    LET names == read_csv_column([i \in DOMAIN users |-> users[i].username])
        words == read_csv_column([i \in DOMAIN users |-> users[i].password])
    IN  [i \in DOMAIN users |-> [username |-> names[i], password |-> words[i]]]

\* username in users["username"].values (line 29): a str equals no number
\* and no missing value
username_exists(u) == \E i \in DOMAIN load_users : load_users[i].username = Str(u)

\* save_user(username, password): the lines of users.csv afterwards
save_user(u, p) ==
    IF username_exists(u)
    THEN users
    ELSE to_csv(Append(load_users, [username |-> Str(u), password |-> Str(p)]))

\* check_login with | in the place of & (line 37)
check_login_either(u, p) ==
    \E i \in DOMAIN load_users :
        load_users[i].username = Str(u) \/ load_users[i].password = Str(p)

\* check_login(username, password)
check_login(u, p) ==
    \E i \in DOMAIN load_users :
        load_users[i].username = Str(u) /\ load_users[i].password = Str(p)

\* what the model types into the login page
Usernames == {Word("alice")}
Passwords == {Word("pw1"), Word("pw2")}

\* the one password typed while the Dashboard tab is explored
FewPasswords == {Word("pw1")}

(***************************************************************************)
(* Widget values tried by the model: Samples + 1 points spread over the    *)
(* widget's range, the default, and the values of the documented examples. *)
(***************************************************************************)
Spread(lo, hi) == {lo + (k * (hi - lo)) \div Samples : k \in 0..Samples}

ExampleInputs ==
    [carbs |-> {60}, carb_ratio |-> {15}, glucose |-> {100, 220},
     correction_factor |-> {}, target_glucose |-> {150}]

InputValueSets ==
    [carbs |-> Spread(CarbsMin, CarbsMax),
     carb_ratio |-> Spread(CarbRatioMin, CarbRatioMax),
     glucose |-> Spread(GlucoseMin, GlucoseMax),
     correction_factor |-> Spread(CorrectionFactorMin, CorrectionFactorMax),
     target_glucose |-> Spread(TargetMin, TargetMax)]

InputValues(w) == InputValueSets[w] \cup {DefaultInputs[w]} \cup ExampleInputs[w]

\* the values tried while the model explores the Dashboard tab
FewInputValues(w) == IF w = "carbs" THEN {DefaultInputs[w], 60} ELSE {DefaultInputs[w]}

(***************************************************************************)
(* The state after the first run of the script: the login page.            *)
(***************************************************************************)
InitWith(files) ==
    /\ users = <<>>
    /\ accepted = <<>>
    /\ session_users = NoUsers
    /\ weekly_meals = NoPlans
    /\ logged_in = FALSE
    /\ username = NoUser
    /\ uploaded_file = NoFile
    /\ inputs = DefaultInputs
    /\ dose = NotRendered
    /\ disk_file \in files

(***************************************************************************)
(* Login page (lines 51-79).  The page is all that a run renders while     *)
(* logged_in is false.                                                     *)
(***************************************************************************)
\* "Login" clicked with this username and password
Login(u, p) ==
    /\ ~logged_in
    /\ IF check_login(u, p)
       THEN /\ logged_in' = TRUE
            /\ username' = u
            \* st.rerun(): the run now renders the tabs
            /\ dose' \in InsulinTab(inputs)
       ELSE UNCHANGED <<logged_in, username, dose>>
    /\ UNCHANGED <<users, accepted, uploaded_file, inputs, disk_file>>
    /\ UNCHANGED <<session_users, weekly_meals>>

\* "Sign Up" clicked with this username and password
SignUp(u, p) ==
    /\ ~logged_in
    /\ username_exists(u) \/ Len(users) < MaxUsers
    /\ users' = save_user(u, p)
    /\ accepted' = IF username_exists(u)
                   THEN accepted
                   ELSE Append(accepted, [username |-> u, password |-> p])
    /\ UNCHANGED <<logged_in, username, uploaded_file, inputs, dose, disk_file>>
    /\ UNCHANGED <<session_users, weekly_meals>>

\* "Logout" clicked (lines 85-88): the rerun renders the login page only, and
\* the widgets it does not render lose their values
Logout ==
    /\ logged_in
    /\ logged_in' = FALSE
    /\ username' = NoUser
    /\ uploaded_file' = NoFile
    /\ inputs' = DefaultInputs
    /\ dose' = NotRendered
    /\ UNCHANGED <<users, accepted, disk_file>>
    /\ UNCHANGED <<session_users, weekly_meals>>

(***************************************************************************)
(* The rerun of the tabs after the value of a widget changed.              *)
(***************************************************************************)
Rerun(file, in) ==
    IF run_stops(file)
    THEN \* the Insulin tab is not reached: its widgets lose their values
         /\ inputs' = DefaultInputs
         /\ dose' = NotRendered
    ELSE /\ inputs' = in
         /\ dose' \in InsulinTab(in)

\* the user uploads the file at hand
Upload ==
    /\ logged_in
    /\ uploaded_file' = disk_file
    /\ Rerun(disk_file, inputs)
    /\ UNCHANGED <<users, accepted, logged_in, username, disk_file>>
    /\ UNCHANGED <<session_users, weekly_meals>>

\* the user removes the uploaded file
RemoveFile ==
    /\ logged_in
    /\ uploaded_file # NoFile
    /\ uploaded_file' = NoFile
    /\ Rerun(NoFile, inputs)
    /\ UNCHANGED <<users, accepted, logged_in, username, disk_file>>
    /\ UNCHANGED <<session_users, weekly_meals>>

\* the user sets one number_input of the Insulin tab
SetInput(w, v) ==
    /\ logged_in
    /\ dose # NotRendered
    /\ v \in WidgetRange(w)
    /\ Rerun(uploaded_file, [inputs EXCEPT ![w] = v])
    /\ UNCHANGED <<users, accepted, logged_in, username, uploaded_file, disk_file>>
    /\ UNCHANGED <<session_users, weekly_meals>>

(***************************************************************************)
(* The application, exploring the Insulin tab.                             *)
(***************************************************************************)
Init == InitWith(FewFiles)

Next ==
    \/ \E u \in Usernames, p \in Passwords : Login(u, p)
    \/ \E u \in Usernames, p \in Passwords : SignUp(u, p)
    \/ Logout
    \/ Upload
    \/ RemoveFile
    \/ \E w \in Widgets : \E v \in InputValues(w) : SetInput(w, v)

Spec == Init /\ [][Next]_vars

(***************************************************************************)
(* The application, exploring the Dashboard tab.                           *)
(***************************************************************************)
InitDashboard == InitWith(Files)

NextDashboard ==
    \/ \E u \in Usernames, p \in FewPasswords : Login(u, p)
    \/ \E u \in Usernames, p \in FewPasswords : SignUp(u, p)
    \/ Logout
    \/ Upload
    \/ RemoveFile
    \/ \E w \in Widgets : \E v \in FewInputValues(w) : SetInput(w, v)

SpecDashboard == InitDashboard /\ [][NextDashboard]_vars

(***************************************************************************)
(* The dose formulas of lines 168-170 as functions of five integers, the   *)
(* values below min_value included, which the widgets keep out.            *)
(***************************************************************************)
FormulaInputs ==
    [carbs : {30 * k : k \in 0..FormulaSpan},
     carb_ratio : {15 * k : k \in -FormulaSpan..FormulaSpan},
     glucose : {100 + 60 * k : k \in 0..FormulaSpan},
     correction_factor : {25 * k : k \in -FormulaSpan..FormulaSpan},
     target_glucose : {100, 150}]

InitFormula ==
    /\ users = <<>>
    /\ accepted = <<>>
    /\ session_users = NoUsers
    /\ weekly_meals = NoPlans
    /\ logged_in = FALSE
    /\ username = NoUser
    /\ uploaded_file = NoFile
    /\ disk_file = NoFile
    /\ inputs \in FormulaInputs
    /\ dose = NotRendered

\* lines 168-170 evaluated on the inputs
Evaluate ==
    /\ dose = NotRendered
    /\ dose' \in InsulinTab(inputs)
    /\ UNCHANGED <<users, accepted, logged_in, username, uploaded_file, inputs, disk_file>>
    /\ UNCHANGED <<session_users, weekly_meals>>

NextFormula == Evaluate

SpecFormula == InitFormula /\ [][NextFormula]_vars

(***************************************************************************)
(* The login page of lines 51-79 alone, with usernames and passwords that  *)
(* users.csv does not give back as they were typed.                        *)
(***************************************************************************)
AuthUsernames == {Word("alice"), Digits(7, 0), Digits(7, 2), EmptyText}
AuthPasswords == {Word("pw1"), Digits(123, 0)}

InitAuth == InitWith({NoFile})

NextAuth ==
    \/ \E u \in AuthUsernames, p \in AuthPasswords : Login(u, p)
    \/ \E u \in AuthUsernames, p \in AuthPasswords : SignUp(u, p)
    \/ Logout

SpecAuth == InitAuth /\ [][NextAuth]_vars

(***************************************************************************)
(* The script of lines 401-591: users kept in the session state, the       *)
(* login page, and the weekly diet plan.  It has no Logout button.         *)
(***************************************************************************)
\* st.session_state.users = {"test": "123"} (line 411), a dict from str to str
DemoUsers == [u \in {Word("test")} |-> Digits(123, 0)]

\* what the model types into login_page
PlanUsernames == {Word("test"), Word("alice")}
PlanPasswords == {Digits(123, 0)}

days == <<"Monday", "Tuesday", "Wednesday", "Thursday", "Friday", "Saturday", "Sunday">>
categories == <<"Breakfast", "Lunch", "Dinner", "Snack">>

\* meals (lines 454-508): a meal is kept by its name, which no two meals share
meals ==
    [Breakfast |-> <<"Oatmeal with Fruits", "Avocado Toast", "Smoothie Bowl",
                     "Idli with Sambar", "Vegetable Upma">>,
     Lunch |-> <<"Grilled Chicken Salad", "Quinoa Bowl",
                 "Paneer Butter Masala with Roti", "Dal Tadka with Rice">>,
     Dinner |-> <<"Baked Salmon with Veggies", "Veggie Stir Fry", "Rajma Chawal",
                  "Grilled Paneer with Veggies">>,
     Snack |-> <<"Greek Yogurt with Honey", "Mixed Nuts", "Fruit Salad",
                 "Roasted Chickpeas">>]

\* the elements of a list
Range(list) == {list[k] : k \in DOMAIN list}

\* get_user_key(key): f"{st.session_state.username}_{key}"
get_user_key(key) == <<username, key>>

\* categories[i % len(categories)] for the i-th day, counted from 0 (line 523)
category_of_day(i) == categories[(i % Len(categories)) + 1]

\* lines 520-524: the plans that the initialisation can draw
initial_plans ==
    [d \in DOMAIN days |-> Range(meals[category_of_day(d - 1)])]

\* the plans with a meal of initial_plans for each of the first k days
RECURSIVE PlansUpTo(_)
PlansUpTo(k) ==
    IF k = 0 THEN {<<>>}
    ELSE {Append(plan, meal) : plan \in PlansUpTo(k - 1), meal \in initial_plans[k]}

\* the weekly plan is the dict of lines 521-524, kept as the list of its meals
\* in the order of days
WeeklyPlans == PlansUpTo(Len(days))

\* any meal of the same list, with the category left out of the test
change_choices_any_list(meal) == UNION {Range(meals[c]) : c \in Range(categories)}

\* lines 540-543: what "Change <day>" can leave in the place of meal: a draw
\* from the last list of meals.items() that holds it, meal itself if none does
change_choices(meal) ==
    LET holding == {c \in DOMAIN categories : meal \in Range(meals[categories[c]])}
        last == CHOOSE c \in holding : \A other \in holding : other <= c
    IN  IF holding = {} THEN {meal} ELSE Range(meals[categories[last]])

\* the state after the first run of the script: login_page
InitPlan ==
    /\ users = <<>>
    /\ accepted = <<>>
    /\ session_users = DemoUsers
    /\ weekly_meals = NoPlans
    /\ logged_in = FALSE
    /\ username = EmptyText
    /\ uploaded_file = NoFile
    /\ disk_file = NoFile
    /\ inputs = DefaultInputs
    /\ dose = NotRendered

\* "Login" clicked in login_page (lines 428-436); the rerun passes the gate of
\* lines 447-449 and draws the user's weekly plan if there is none (516-524)
PlanLogin(u, p) ==
    /\ ~logged_in
    /\ IF u \in DOMAIN session_users /\ session_users[u] = p
       THEN /\ logged_in' = TRUE
            /\ username' = u
            /\ IF <<u, "weekly_meals">> \in DOMAIN weekly_meals
               THEN UNCHANGED weekly_meals
               ELSE \E plan \in WeeklyPlans :
                       weekly_meals' = (<<u, "weekly_meals">> :> plan) @@ weekly_meals
       ELSE UNCHANGED <<logged_in, username, weekly_meals>>
    /\ UNCHANGED <<users, accepted, session_users, uploaded_file, disk_file, inputs, dose>>

\* "Sign Up" clicked in login_page (lines 438-445)
PlanSignUp(u, p) ==
    /\ ~logged_in
    /\ session_users' = IF u \in DOMAIN session_users
                        THEN session_users
                        ELSE (u :> p) @@ session_users
    /\ UNCHANGED <<users, accepted, weekly_meals, logged_in, username>>
    /\ UNCHANGED <<uploaded_file, disk_file, inputs, dose>>

\* "Change <day>" clicked for the d-th day (lines 540-544)
ChangeDay(d) ==
    /\ logged_in
    /\ LET key == get_user_key("weekly_meals")
           meal == weekly_meals[key][d]
       IN  \E new \in change_choices(meal) :
              weekly_meals' = [weekly_meals EXCEPT ![key][d] = new]
    /\ UNCHANGED <<users, accepted, session_users, logged_in, username>>
    /\ UNCHANGED <<uploaded_file, disk_file, inputs, dose>>

NextPlan ==
    \/ \E u \in PlanUsernames, p \in PlanPasswords : PlanLogin(u, p)
    \/ \E u \in PlanUsernames, p \in PlanPasswords : PlanSignUp(u, p)
    \/ \E d \in DOMAIN days : ChangeDay(d)

SpecPlan == InitPlan /\ [][NextPlan]_vars

(***************************************************************************)
(* A session of either script: the one of lines 1-170, which never sets    *)
(* st.session_state.users, or the one of lines 401-591, which sets it on   *)
(* its first run.                                                          *)
(***************************************************************************)
InitSession == InitAuth \/ InitPlan

\* the script that the session runs
FirstScript == session_users = NoUsers
SecondScript == session_users # NoUsers

NextSession ==
    \/ \E u \in AuthUsernames, p \in AuthPasswords : FirstScript /\ Login(u, p)
    \/ \E u \in AuthUsernames, p \in AuthPasswords : FirstScript /\ SignUp(u, p)
    \/ FirstScript /\ Logout
    \/ \E u \in PlanUsernames, p \in PlanPasswords : SecondScript /\ PlanLogin(u, p)
    \/ \E u \in PlanUsernames, p \in PlanPasswords : SecondScript /\ PlanSignUp(u, p)
    \/ \E d \in DOMAIN days : SecondScript /\ ChangeDay(d)

SpecSession == InitSession /\ [][NextSession]_vars

(***************************************************************************)
(* Claims about the Insulin tab.                                           *)
(***************************************************************************)
\* the correction dose the claims describe: 0 at or below target, else the
\* excess over target divided by the sensitivity factor
ExpectedCorrection(in) ==
    IF in.glucose <= in.target_glucose THEN Zero
    ELSE Frac(in.glucose - in.target_glucose, in.correction_factor)

\* C1: for every current glucose, target glucose and sensitivity factor > 0
\* the correction dose of the Insulin tab is 0 when current <= target, else
\* (current - target) / factor, and it is never negative.
C1_CorrectionDose ==
    (dose.rendered /\ inputs.correction_factor > 0) =>
        /\ ~dose.correction_insulin.err
        /\ FracEq(dose.correction_insulin, ExpectedCorrection(inputs))
        /\ ~FracLt(dose.correction_insulin, Zero)

\* C1 witness: a run with current glucose 220 above target 150 shows 70 / factor
C1_Witness ==
    /\ dose.rendered
    /\ inputs.glucose = 220 /\ inputs.target_glucose = 150
    /\ FracEq(dose.correction_insulin, Frac(70, inputs.correction_factor))
    /\ FracLt(Zero, dose.correction_insulin)

ExactSum == FracAdd(dose.carb_insulin, dose.correction_insulin)

\* C4 as stated: the total dose is exactly the correction dose plus the carb
\* bolus, with nothing else applied to the sum.
C4_Original ==
    dose.rendered => dose.total_dose * ExactSum.den = 10 * ExactSum.num

\* C4 amended: the total dose is the sum of the two doses rounded to one
\* decimal place: a multiple of 0.1 within 0.05 of the sum, neither capped nor
\* floored.
C4_RoundedSum ==
    dose.rendered =>
        LET diff == dose.total_dose * ExactSum.den - 10 * ExactSum.num
        IN  /\ 2 * diff <= ExactSum.den
            /\ -2 * diff <= ExactSum.den

\* C4 witness: 50 g at ratio 15 and no correction give 3.3, not 10/3
C4_Witness ==
    /\ dose.rendered
    /\ inputs.carbs = 50 /\ inputs.carb_ratio = 15
    /\ inputs.glucose <= inputs.target_glucose
    /\ dose.total_dose = 33

(***************************************************************************)
(* Claims about the Dashboard tab.                                         *)
(***************************************************************************)
Uploaded == uploaded_file # NoFile

\* what the run of the Dashboard tab rendered for the uploaded file
Rendered == Dashboard(uploaded_file)

\* the file has a header that reads n once blanks and case are set aside
HasName(f, n) == \E i \in DOMAIN f.headers : f.headers[i].name = n

\* the cell of row r under the header that reads n
CellAt(f, r, n) == f.rows[r][CHOOSE i \in DOMAIN f.headers : f.headers[i].name = n]

\* the aliases the documentation lists for the two mandatory roles
GlucoseAliases ==
    {"blood sugar measurement (mg/dl)", "blood glucose (mg/dl)", "blood glucose",
     "glucose (mg/dl)", "glucose value", "glucose", "bg", "measurement"}

TimestampAliases == {"datetime", "timestamp", "date time", "time stamp"}

\* the roles resolve in the documentation's sense
DocGlucose(f) == \E n \in GlucoseAliases : HasName(f, n)

DocTimestamp(f) ==
    \/ \E n \in TimestampAliases : HasName(f, n)
    \/ HasName(f, "date") /\ HasName(f, "time")

\* the timestamp columns the script looks for
HasSplit(f) == HasName(f, "date") /\ HasName(f, "time")

HasTimestamp(f) == HasSplit(f) \/ HasName(f, "datetime")

\* the timestamp of a (date, time) pair of cells and of a single cell
SplitTimestamp(d, t) ==
    IF d.kind = "ok" /\ t.kind = "ok" THEN Ts((d.v - 1) * TimeRanks + t.v) ELSE NaT

SingleTimestamp(c) == IF c.kind = "ok" THEN Ts(c.v) ELSE NaT

\* C5 as stated: when the Timestamp or the Glucose role cannot be resolved, the
\* ingestion ends in a failure and the file is not processed as a success.
C5_Original ==
    LET run == Rendered
    IN
    (Uploaded /\ (~DocTimestamp(uploaded_file) \/ ~DocGlucose(uploaded_file))) =>
        run.status # "ok"

\* C5 amended: a file with columns and with neither "date" and "time" nor
\* "datetime" among its headers ends in the error "No 'datetime' column found."
\* and the run stops there (no chart, no Insulin tab); a file without a glucose
\* column is no failure: it is reported as uploaded and only the glucose chart
\* is left out.
C5_TimestampFailureOnly ==
    LET run == Rendered
        charts == run.glucose_chart \o run.insulin_charts
    IN
    (Uploaded /\ Len(uploaded_file.headers) > 0) =>
        /\ ~HasTimestamp(uploaded_file) =>
              /\ run.status = "stopped"
              /\ run.message = "No 'datetime' column found."
              /\ charts = <<>>
              /\ dose = NotRendered
        /\ HasTimestamp(uploaded_file) =>
              /\ run.status = "ok"
              /\ run.message = "File uploaded successfully!"
              /\ dose.rendered
              /\ ~HasName(uploaded_file, GlucoseColumn) => run.glucose_chart = <<>>

\* C5 witness: a file with timestamps and no glucose-like column is a success
C5_Witness ==
    LET run == Rendered
    IN
    /\ Uploaded
    /\ ~DocGlucose(uploaded_file)
    /\ run.status = "ok"
    /\ run.message = "File uploaded successfully!"
    /\ dose.rendered

\* C6 as stated: the series handed to the charting step is in non-decreasing
\* order of timestamp.
C6_Original ==
    LET run == Rendered
        charts == run.glucose_chart \o run.insulin_charts
    IN
    Uploaded =>
        \A k \in DOMAIN charts : \A i, j \in DOMAIN charts[k].points :
            (i < j /\ ~charts[k].points[i].x.nat /\ ~charts[k].points[j].x.nat) =>
                charts[k].points[i].x.t <= charts[k].points[j].x.t

\* C6 amended: the series handed to the charting step is in the order of the
\* file's rows (point i is row i), whatever their timestamps: nothing sorts it.
C6_FileOrder ==
    LET run == Rendered
        charts == run.glucose_chart \o run.insulin_charts
    IN
    Uploaded =>
        \A k \in DOMAIN charts :
            /\ DOMAIN charts[k].points = DOMAIN uploaded_file.rows
            /\ \A r \in DOMAIN uploaded_file.rows :
                  /\ charts[k].points[r].y = CellAt(uploaded_file, r, charts[k].y.name)
                  /\ charts[k].points[r].x =
                        IF HasSplit(uploaded_file)
                        THEN SplitTimestamp(CellAt(uploaded_file, r, "date"),
                                            CellAt(uploaded_file, r, "time"))
                        ELSE SingleTimestamp(CellAt(uploaded_file, r, "datetime"))

\* C6 witness: a chart whose first point is later than its second
C6_Witness ==
    LET run == Rendered
        charts == run.glucose_chart \o run.insulin_charts
    IN
    /\ Uploaded
    /\ \E k \in DOMAIN charts :
          /\ Len(charts[k].points) >= 2
          /\ ~charts[k].points[1].x.nat /\ ~charts[k].points[2].x.nat
          /\ charts[k].points[1].x.t > charts[k].points[2].x.t

\* C7 as stated: a row whose timestamp cell or glucose cell fails coercion is
\* absent from the series.
C7_Original ==
    LET run == Rendered
    IN
    Uploaded =>
        \A k \in DOMAIN run.glucose_chart :
            \A i \in DOMAIN run.glucose_chart[k].points :
                /\ ~run.glucose_chart[k].points[i].x.nat
                /\ run.glucose_chart[k].points[i].y.kind = "ok"

\* C7 amended: no row is dropped: the glucose series has one point for every
\* row of the file, a row whose timestamp fails coercion with the missing
\* value NaT and a row whose glucose cell is not a number with that cell
\* unchanged; the ingestion does not fail because of such rows.
C7_NoRowDropped ==
    LET run == Rendered
    IN
    (Uploaded /\ HasTimestamp(uploaded_file)
              /\ HasName(uploaded_file, GlucoseColumn)) =>
        /\ run.status = "ok"
        /\ Len(run.glucose_chart) = 1
        /\ Len(run.glucose_chart[1].points) = Len(uploaded_file.rows)
        /\ \A r \in DOMAIN uploaded_file.rows :
              LET g == CellAt(uploaded_file, r, GlucoseColumn)
                  pt == run.glucose_chart[1].points[r]
              IN  /\ g.kind # "ok" => pt.y = g
                  /\ (HasSplit(uploaded_file) /\
                      (CellAt(uploaded_file, r, "date").kind # "ok" \/
                       CellAt(uploaded_file, r, "time").kind # "ok")) => pt.x = NaT
                  /\ (~HasSplit(uploaded_file) /\
                      CellAt(uploaded_file, r, "datetime").kind # "ok") => pt.x = NaT

\* C7 witness: a series of MaxRows points, one with a glucose cell that is not a
\* number and one with a timestamp that did not parse
C7_Witness ==
    LET run == Rendered
    IN
    /\ Uploaded
    /\ Len(run.glucose_chart) = 1
    /\ Len(run.glucose_chart[1].points) = MaxRows
    /\ \E i \in DOMAIN run.glucose_chart[1].points :
          run.glucose_chart[1].points[i].y.kind = "bad"
    /\ \E i \in DOMAIN run.glucose_chart[1].points :
          run.glucose_chart[1].points[i].x.nat

\* the file has a "datetime" column beside "date" and "time" columns
HasAllThree(f) == HasName(f, "datetime") /\ HasSplit(f)

\* C8 as stated: with a "datetime" column beside "date" and "time" columns the
\* timestamps are those of the "datetime" column.
C8_Original ==
    LET run == Rendered
        charts == run.glucose_chart \o run.insulin_charts
    IN
    (Uploaded /\ HasAllThree(uploaded_file)) =>
        \A k \in DOMAIN charts : \A r \in DOMAIN charts[k].points :
            charts[k].points[r].x = SingleTimestamp(CellAt(uploaded_file, r, "datetime"))

\* C8 amended: the (date, time) pair is used whenever both columns are present
\* and then replaces the values of a "datetime" column; the "datetime" column
\* is used only when "date" and "time" are not both present.
C8_SplitFirst ==
    LET run == Rendered
        charts == run.glucose_chart \o run.insulin_charts
    IN
    (Uploaded /\ HasTimestamp(uploaded_file)) =>
        /\ run.status = "ok"
        /\ \A k \in DOMAIN charts : \A r \in DOMAIN charts[k].points :
              charts[k].points[r].x =
                 IF HasSplit(uploaded_file)
                 THEN SplitTimestamp(CellAt(uploaded_file, r, "date"),
                                     CellAt(uploaded_file, r, "time"))
                 ELSE SingleTimestamp(CellAt(uploaded_file, r, "datetime"))

\* C8 witness: all three columns, and a point whose timestamp is the one of the
\* pair and not the one of the "datetime" cell
C8_Witness ==
    LET run == Rendered
        charts == run.glucose_chart \o run.insulin_charts
    IN
    /\ Uploaded
    /\ HasAllThree(uploaded_file)
    /\ \E k \in DOMAIN charts : \E r \in DOMAIN charts[k].points :
          /\ charts[k].points[r].x #
                SingleTimestamp(CellAt(uploaded_file, r, "datetime"))
          /\ charts[k].points[r].x =
                SplitTimestamp(CellAt(uploaded_file, r, "date"),
                               CellAt(uploaded_file, r, "time"))

\* C9 as stated: a header list with one of the glucose aliases and a
\* resolvable timestamp has both roles resolved: the run reaches the glucose
\* chart.
C9_Original ==
    LET run == Rendered
    IN
    (Uploaded /\ DocGlucose(uploaded_file) /\ DocTimestamp(uploaded_file)) =>
        /\ run.status = "ok"
        /\ Len(run.glucose_chart) = 1

\* C9 amended: the glucose column is recognised under the one name "blood sugar
\* measurement (mg/dl)" and the timestamp under "datetime" or the pair "date",
\* "time", each in any letter case and with blanks around it: the glucose
\* chart is drawn for exactly the header lists that hold these names.
C9_KnownNamesOnly ==
    LET run == Rendered
    IN
    (Uploaded /\ Len(uploaded_file.headers) > 0) =>
        /\ run.status = "ok" <=> HasTimestamp(uploaded_file)
        /\ Len(run.glucose_chart) = 1 <=>
              (HasTimestamp(uploaded_file) /\ HasName(uploaded_file, GlucoseColumn))
        /\ Len(run.glucose_chart) = 1 =>
              run.glucose_chart[1].y = Lit(GlucoseColumn)

\* C9 witness: the names in capitals with blanks around them are recognised
C9_Witness ==
    LET run == Rendered
    IN
    /\ Uploaded
    /\ \A i \in DOMAIN uploaded_file.headers :
          uploaded_file.headers[i].up /\ uploaded_file.headers[i].pad
    /\ HasName(uploaded_file, GlucoseColumn)
    /\ Len(run.glucose_chart) = 1
    /\ run.status = "ok"

\* the headers of the file whose name contains "insulin", in the file's order
InsulinHeaders(f) ==
    SelectSeq([i \in DOMAIN f.headers |-> f.headers[i].name],
              LAMBDA n : n \in InsulinNames)

FirstPassword(u) ==
    accepted[CHOOSE i \in DOMAIN accepted :
                /\ accepted[i].username = u
                /\ \A j \in 1..(i - 1) : accepted[j].username # u].password

SignedUp(u) == \E i \in DOMAIN accepted : accepted[i].username = u

\* C11: no username is stored twice and the first registration wins: a
\* sign-up with a stored username is rejected, and a login with (u, p)
\* succeeds if and only if the first accepted sign-up of u used password p.
C11_Original ==
    /\ \A i, j \in DOMAIN users :
          i # j => users[i].username # users[j].username
    /\ \A i, j \in DOMAIN accepted :
          i # j => accepted[i].username # accepted[j].username
    /\ \A u \in AuthUsernames, p \in AuthPasswords :
          check_login(u, p) <=> (SignedUp(u) /\ FirstPassword(u) = p)

\* a user with this username and this password is stored: on a line of
\* users.csv, or in st.session_state.users
Stored(u, p) ==
    \/ \E i \in DOMAIN users : users[i] = [username |-> u, password |-> p]
    \/ u \in DOMAIN session_users /\ session_users[u] = p

\* what is past the login gate shows only while logged_in is true
C12_Gate == logged_in \/ (dose = NotRendered /\ uploaded_file = NoFile)

\* one interaction: a login click with a username and a password that are
\* not those of a stored user does not log in; logging in sets username to a
\* stored user; a step that leaves the session logged out leaves username as
\* it was; logging out clears username and leaves the login page alone; the
\* lines past the gate write the weekly plan only when logged_in is true
C12_Step ==
    /\ \A u \in AuthUsernames \cup PlanUsernames, p \in AuthPasswords \cup PlanPasswords :
          (~logged_in /\ logged_in' /\ ~Stored(u, p)) =>
              ~(Login(u, p) \/ PlanLogin(u, p))
    /\ (~logged_in /\ logged_in') =>
          \E u \in AuthUsernames \cup PlanUsernames, p \in AuthPasswords \cup PlanPasswords :
              Stored(u, p) /\ username' = u
    /\ (~logged_in /\ ~logged_in') => username' = username
    /\ (logged_in /\ ~logged_in') =>
          /\ username' = NoUser
          /\ dose' = NotRendered
          /\ uploaded_file' = NoFile
    /\ weekly_meals' # weekly_meals => logged_in'

\* C12: the content past the login gate is rendered only while logged_in is
\* true; logged_in becomes true only through a Login click whose username and
\* password match a stored user, and username is then that user; a failed
\* login leaves logged_in and username unchanged; Logout sets logged_in to
\* false and clears username, and the next run shows only the login page.
C12_LoginGate == []C12_Gate /\ [][C12_Step]_vars

\* C12 witness: a user whose username reads as a number in users.csv is
\* logged in and the run has rendered the tabs
C12_Witness ==
    /\ logged_in
    /\ username = Digits(7, 0)
    /\ \E i \in DOMAIN users : users[i].username = username
    /\ dose # NotRendered

(***************************************************************************)
(* Claims about the weekly diet plan.                                      *)
(***************************************************************************)
\* the meal list the claim gives the i-th day, counted from 0
ClaimedMeals(i) == Range(meals[categories[(i % 4) + 1]])

\* the weekly plan of the user who is logged in
MyPlan == weekly_meals[<<username, "weekly_meals">>]

\* every stored plan gives each of the seven days one meal of the day's list,
\* and the user who is logged in has a plan
C13_PlanShape ==
    /\ logged_in => <<username, "weekly_meals">> \in DOMAIN weekly_meals
    /\ \A key \in DOMAIN weekly_meals :
          /\ DOMAIN weekly_meals[key] = 1..7
          /\ \A d \in 1..7 : weekly_meals[key][d] \in ClaimedMeals(d - 1)

\* a step that changes a stored plan changes the meal of one day only
C13_OneDay ==
    \A key \in DOMAIN weekly_meals :
        /\ key \in DOMAIN weekly_meals'
        /\ Cardinality({d \in 1..7 : weekly_meals'[key][d] # weekly_meals[key][d]}) <= 1

\* C13: for every logged-in user, after initialisation and after any sequence
\* of "Change <day>" clicks, each of the seven days has exactly one meal and
\* the meal of the i-th day is of the list of categories[i mod 4]; a Change
\* click on one day leaves the meals of the other six days unchanged.
C13_WeeklyPlan == []C13_PlanShape /\ [][C13_OneDay]_vars

\* C13 witness: a user is logged in with a plan that shows, on the two days
\* that share the Breakfast list, two different meals that are not the first
\* of the list
C13_Witness ==
    /\ logged_in
    /\ <<username, "weekly_meals">> \in DOMAIN weekly_meals
    /\ MyPlan[1] = "Vegetable Upma"
    /\ MyPlan[5] = "Avocado Toast"
    /\ MyPlan[4] = "Roasted Chickpeas"

====
